---- MODULE Spec2Model ----
(***************************************************************************)
(* WiFiConfigModal (src/WiFiConfigModal.js): the Direct-AP provisioning    *)
(* flow.  One mounted component instance, its React state, its refs, the   *)
(* 500 ms auto-scan timers it schedules, and the scan / configure HTTP     *)
(* requests it has issued through fetchWithTimeout.                        *)
(*                                                                         *)
(* A handler runs to completion before the next event (single JS thread);  *)
(* each await is a point where other events interleave, so every request   *)
(* is a small process: "fetch" (awaiting the response, timeout timer       *)
(* armed), "body" (2xx headers received, timer cleared, awaiting           *)
(* response.json()), and "done".  State setters called in one handler are  *)
(* rendered before the next event, so the button handlers see the current  *)
(* state; the auto-scan timer calls the closure of the render that         *)
(* scheduled it.  The showPassword flag only switches the rendering of the *)
(* password field and is left out.                                         *)
(***************************************************************************)
EXTENDS Integers, Sequences, FiniteSets, TLC

\* ------------------------------------------------------------------ bounds
MaxReq == 3        \* requests issued over one run
MaxTimers == 1     \* auto-scan timers pending at once
MaxNets == 2       \* entries of a scan response (SortSpec)
MaxCleanups == 2   \* functions in cleanupFunctionsRef (CleanupSpec)

\* --------------------------------------------------------------- constants
MissingRssiKey == -100   \* (x.rssi || -100)

VARIABLES
  mountedRef,         \* mountedRef.current
  visible,            \* the visible prop
  hasDevice,          \* device?.deviceId is truthy
  hasUser,            \* userId is truthy
  wifiScanTimerRef,   \* 0 is null
  wifiListenerRef,    \* << >> is null, <<f>> a listener
  cleanupFunctionsRef,
  registered,         \* the listener and the cleanup functions the refs held
                      \* when the component was set up
  invoked,            \* how many times each of them was called
  raised,             \* cleanupWifiListener let an exception escape
  wifiNetworks,
  selectedNetwork,    \* << >> is null, <<n>> a network
  wifiPassword,
  isScanning,
  isConfiguring,
  autoTimers,         \* pending auto-scan timers, oldest first: the isScanning
                      \* value captured by the scan closure of each
  reqs,               \* the requests issued so far, in order of issue
  successAlerts,      \* 'WiFi Connected!' alerts whose OK was not pressed yet
  delivered,          \* history: the ssids the scans stored in wifiNetworks
                      \* since the last handleClose
  last                \* what the handler or continuation that ran last let the
                      \* caller see: the request it completed, the alerts it raised

refs == <<wifiScanTimerRef, wifiListenerRef, cleanupFunctionsRef, registered,
          invoked, raised>>
props == <<hasDevice, hasUser>>
state == <<wifiNetworks, selectedNetwork, wifiPassword, isScanning, isConfiguring>>
vars == <<mountedRef, visible, props, refs, state, autoTimers, reqs,
          successAlerts, delivered, last>>

\* ---------------------------------------------------------------- networks
\* An entry of data.networks.  A field the device left out has its has* flag
\* FALSE; an ssid is its sequence of characters.
Network(hs, s, hr, r, e) ==
  [hasSsid |-> hs, ssid |-> s, hasRssi |-> hr, rssi |-> r, encryption |-> e]

Home == Network(TRUE, <<"H">>, TRUE, -55, "WPA2")
Guest == Network(TRUE, <<"G">>, TRUE, -70, "OPEN")
Hidden == Network(TRUE, << >>, TRUE, -40, "OPEN")
Blank == Network(TRUE, <<" ">>, TRUE, -60, "WPA2")

\* String.prototype.trim
RECURSIVE TrimLeft(_)
TrimLeft(s) == IF s # << >> /\ Head(s) = " " THEN TrimLeft(Tail(s)) ELSE s

RECURSIVE TrimRight(_)
TrimRight(s) ==
  IF s # << >> /\ s[Len(s)] = " " THEN TrimRight(SubSeq(s, 1, Len(s) - 1)) ELSE s

Trim(s) == TrimRight(TrimLeft(s))

\* a filter that keeps every entry
AnySsid(n) == TRUE

\* network && network.ssid && network.ssid.trim() !== ''
ValidSsid(n) == n.hasSsid /\ n.ssid # << >> /\ Trim(n.ssid) # << >>

\* (x.rssi || -100): a missing rssi and the number 0 are both falsy
SortKey(n) == IF n.hasRssi /\ n.rssi # 0 THEN n.rssi ELSE MissingRssiKey

\* (a, b) => (b.rssi || -100) - (a.rssi || -100)
Compare(a, b) == SortKey(b) - SortKey(a)

RECURSIVE FilterValid(_)
FilterValid(s) ==
  IF s = << >> THEN << >>
  ELSE IF ValidSsid(Head(s)) THEN <<Head(s)>> \o FilterValid(Tail(s))
       ELSE FilterValid(Tail(s))

\* Array.prototype.sort is stable: x goes after every element that does not
\* compare greater than it.
RECURSIVE InsertSorted(_, _)
InsertSorted(x, s) ==
  IF s = << >> THEN <<x>>
  ELSE IF Compare(Head(s), x) <= 0 THEN <<Head(s)>> \o InsertSorted(x, Tail(s))
       ELSE <<x>> \o s

RECURSIVE SortNetworks(_)
SortNetworks(s) ==
  IF s = << >> THEN << >>
  ELSE InsertSorted(s[Len(s)], SortNetworks(SubSeq(s, 1, Len(s) - 1)))

validNetworks(networks) == SortNetworks(FilterValid(networks))

\* ---------------------------------------------------------------- requests
\* A request process: the timeout timer of fetchWithTimeout is armed while
\* the fetch is awaited; closed records that handleClose ran since the issue.
NewRequest(kind, body) ==
  [kind |-> kind, phase |-> "fetch", timer |-> TRUE, closed |-> FALSE,
   body |-> body]

\* A finished request holds no timer and no body any more.
DoneRequest(kind) ==
  [kind |-> kind, phase |-> "done", timer |-> FALSE, closed |-> FALSE,
   body |-> << >>]

Outstanding(r) == r \in DOMAIN reqs /\ reqs[r].phase # "done"

OutstandingOf(kind) == {r \in DOMAIN reqs : Outstanding(r) /\ reqs[r].kind = kind}

Alert(title, message) == [title |-> title, message |-> message]

Message(text, status) == [text |-> text, status |-> status]

NoMessage == Message("", 0)

\* The handler that ran last raised these alerts and completed no request.
Raised(al) ==
  [kind |-> "none", aborted |-> FALSE, closed |-> FALSE, alerts |-> al]

Quiet == Raised(<< >>)

\* The continuation that ran last completed request r of this kind, whose
\* signal was aborted or not, and raised these alerts.
Completed(r, aborted, al) ==
  [kind |-> reqs[r].kind, aborted |-> aborted, closed |-> reqs[r].closed,
   alerts |-> al]

\* A function held by a ref: which one it is, and whether calling it throws.
Releaser(id, throws) == [id |-> id, throws |-> throws]

\* The component right after its first render, its refs holding this timer
\* id, listener and cleanup functions.
InitWith(timerRef, listenerRef, cleanups) ==
  /\ mountedRef = TRUE
  /\ visible \in BOOLEAN
  /\ hasDevice \in BOOLEAN
  /\ hasUser \in BOOLEAN
  /\ wifiScanTimerRef = timerRef
  /\ wifiListenerRef = listenerRef
  /\ cleanupFunctionsRef = cleanups
  /\ registered = [listener |-> listenerRef, cleanups |-> cleanups]
  /\ invoked = [listener |-> 0, cleanups |-> [i \in DOMAIN cleanups |-> 0]]
  /\ raised = FALSE
  /\ wifiNetworks = << >>
  /\ selectedNetwork = << >>
  /\ wifiPassword = ""
  /\ isScanning = FALSE
  /\ isConfiguring = FALSE
  /\ autoTimers = IF visible THEN <<FALSE>> ELSE << >>
  /\ reqs = << >>
  /\ successAlerts = 0
  /\ delivered = {}
  /\ last = Quiet

\* lines 113-115: useRef(null), useRef(null), useRef([])
Init == InitWith(0, << >>, << >>)

\* ------------------------------------------------------------ small helpers
Error(name, message) == [name |-> name, message |-> message]

\* response.ok
Ok(status) == status >= 200 /\ status <= 299

\* `HTTP ${response.status}: ${response.statusText}` (lines 215, 303)
HttpError(status) == Error("Error", Message("HTTP", status))

\* what fetch rejects with when the transport fails
TransportError == Error("TypeError", Message("Network request failed", 0))

\* what fetch rejects with once controller.abort() was called
AbortError == Error("AbortError", Message("Aborted", 0))

\* what response.json() rejects with on a body that is not JSON
ParseError == Error("SyntaxError", Message("JSON Parse error", 0))

\* Request r ends.
Finish(r) == [reqs EXCEPT ![r] = DoneRequest(reqs[r].kind)]

\* lines 161-166: the listener is called inside try/catch
ListenerCaught == TRUE

\* a forEach body that calls cleanup() without try/catch
CleanupUncaught == FALSE

\* lines 171-175: each cleanup function is called inside try/catch
CleanupCaught == TRUE

\* the cleanup function registered as number i is in the list now
Listed(i) == \E k \in DOMAIN cleanupFunctionsRef : cleanupFunctionsRef[k].id = i

\* lines 154-178: the timer id is dropped, the listener and every listed
\* cleanup function are called once, and the refs are emptied.  No line of
\* the file assigns wifiScanTimerRef, wifiListenerRef or cleanupFunctionsRef,
\* so in the component's own runs there is nothing to call.
cleanupWifiListener ==
  /\ wifiScanTimerRef' = 0
  /\ wifiListenerRef' = << >>
  /\ cleanupFunctionsRef' = << >>
  /\ invoked' =
       [listener |-> invoked.listener + IF wifiListenerRef # << >> THEN 1 ELSE 0,
        cleanups |-> [i \in DOMAIN invoked.cleanups |->
                       invoked.cleanups[i] + IF Listed(i) THEN 1 ELSE 0]]
  /\ raised' =
       \/ raised
       \/ wifiListenerRef # << >> /\ wifiListenerRef[1].throws /\ ~ListenerCaught
       \/ \E k \in DOMAIN cleanupFunctionsRef :
            cleanupFunctionsRef[k].throws /\ ~CleanupCaught
  /\ UNCHANGED registered

\* ---------------------------------------------------------------- the scan
\* the guard of line 182 without its userId test
ScanRejectedNoUser(capturedIsScanning) == ~hasDevice \/ capturedIsScanning

\* line 182, with the isScanning the calling closure captured
ScanRejected(capturedIsScanning) == ~hasDevice \/ capturedIsScanning \/ ~hasUser

\* lines 181-212: the synchronous part of scanWifiNetworksViaHTTP, up to the
\* first await.
scanWifiNetworksViaHTTP(capturedIsScanning) ==
  IF ScanRejected(capturedIsScanning)
  THEN UNCHANGED <<refs, state, reqs>>
  ELSE /\ cleanupWifiListener
       /\ IF ~mountedRef
          THEN UNCHANGED <<state, reqs>>
          ELSE /\ Len(reqs) < MaxReq
               /\ isScanning' = TRUE
               /\ wifiNetworks' = << >>
               /\ reqs' = Append(reqs, NewRequest("scan", << >>))
               /\ UNCHANGED <<selectedNetwork, wifiPassword, isConfiguring>>

\* lines 421-424: the Scan button, with the scan callback of the current render
ScanButton ==
  /\ mountedRef /\ visible
  /\ scanWifiNetworksViaHTTP(isScanning)
  /\ last' = Quiet
  /\ UNCHANGED <<mountedRef, visible, props, delivered, autoTimers, successAlerts>>

\* lines 134-146: the parent shows the modal; the effect schedules the
\* auto-scan with the scan callback of this render.
Open ==
  /\ mountedRef /\ ~visible
  /\ Len(autoTimers) < MaxTimers
  /\ visible' = TRUE
  /\ autoTimers' = Append(autoTimers, isScanning)
  /\ last' = Quiet
  /\ UNCHANGED <<mountedRef, props, delivered, refs, state, reqs, successAlerts>>

\* lines 138-142: the oldest auto-scan timer fires
AutoScanTimer ==
  /\ autoTimers # << >>
  /\ autoTimers' = Tail(autoTimers)
  /\ IF mountedRef /\ hasDevice
     THEN scanWifiNetworksViaHTTP(Head(autoTimers))
     ELSE UNCHANGED <<refs, state, reqs>>
  /\ last' = Quiet
  /\ UNCHANGED <<mountedRef, visible, props, delivered, successAlerts>>

\* a catch block that takes no error for an abort
NeverAbortError(error) == FALSE

\* a catch block that takes every error for an abort
AlwaysAbortError(error) == TRUE

\* error.name === 'AbortError' (lines 248, 338)
IsAbortError(error) == error.name = "AbortError"

\* a catch block that writes without looking at mountedRef
ScanCatchUnchecked == TRUE

\* line 246
ScanCatchMounted == mountedRef

\* lines 244-262; the request's signal is aborted when it was
\* controller.abort() that rejected the fetch
ScanCatch(r, error) ==
  /\ reqs' = Finish(r)
  /\ IF ScanCatchMounted
     THEN /\ isScanning' = FALSE
          /\ last' = Completed(r, error = AbortError,
                       <<IF IsAbortError(error)
                         THEN Alert("Scan Timeout", NoMessage)
                         ELSE Alert("Scan Failed", error.message)>>)
          /\ UNCHANGED <<wifiNetworks, selectedNetwork, wifiPassword,
                         isConfiguring>>
     ELSE /\ last' = Completed(r, error = AbortError, << >>)
          /\ UNCHANGED state

\* line 228
ScanSuccessMounted == mountedRef

\* an empty-result branch with the test of line 234 turned round
ScanEmptyUnmounted == ~mountedRef

\* line 234
ScanEmptyMounted == mountedRef

\* line 221
HasNetworks(data) == data.success /\ data.isArray

\* lines 218-242: response.json() delivered data
ScanData(r, data) ==
  /\ reqs' = Finish(r)
  /\ IF HasNetworks(data)
     THEN /\ last' = Completed(r, FALSE, << >>)
          /\ IF ScanSuccessMounted
             THEN /\ wifiNetworks' = validNetworks(data.networks)
                  /\ isScanning' = FALSE
                  /\ delivered' = delivered \cup
                       {validNetworks(data.networks)[i].ssid :
                          i \in DOMAIN validNetworks(data.networks)}
                  /\ UNCHANGED <<selectedNetwork, wifiPassword, isConfiguring>>
             ELSE UNCHANGED <<state, delivered>>
     ELSE IF ScanEmptyMounted
          THEN /\ isScanning' = FALSE
               /\ last' = Completed(r, FALSE,
                            <<Alert("No Networks Found", NoMessage)>>)
               /\ UNCHANGED <<wifiNetworks, selectedNetwork, wifiPassword,
                              isConfiguring, delivered>>
          ELSE /\ last' = Completed(r, FALSE, << >>)
               /\ UNCHANGED <<state, delivered>>

\* ----------------------------------------------------------- the configure
\* the guard of line 267 without its isConfiguring test
ConfigureRejectedNoFlag ==
  ~hasDevice \/ selectedNetwork = << >> \/ ~hasUser

\* line 267
ConfigureRejected ==
  ~hasDevice \/ selectedNetwork = << >> \/ isConfiguring \/ ~hasUser

\* line 272 left out
PasswordNeverMissing == FALSE

\* line 272
PasswordMissing ==
  selectedNetwork[1].encryption # "OPEN" /\ wifiPassword = ""

\* lines 284-287: wifiPassword || '' is wifiPassword, a string
configData == [ssid |-> selectedNetwork[1].ssid, password |-> wifiPassword]

\* lines 266-300: the Connect button, up to the first await
ConfigureButton ==
  /\ mountedRef /\ visible
  /\ IF ConfigureRejected
     THEN /\ last' = Raised(<<Alert("Error",
                               Message("Please select a network", 0))>>)
          /\ UNCHANGED <<state, reqs>>
     ELSE IF PasswordMissing
     THEN /\ last' = Raised(<<Alert("Error",
                               Message("Please enter the WiFi password", 0))>>)
          /\ UNCHANGED <<state, reqs>>
     ELSE /\ Len(reqs) < MaxReq
          /\ isConfiguring' = TRUE
          /\ reqs' = Append(reqs, NewRequest("configure", <<configData>>))
          /\ last' = Quiet
          /\ UNCHANGED <<wifiNetworks, selectedNetwork, wifiPassword, isScanning>>
  /\ UNCHANGED <<mountedRef, visible, props, delivered, refs, autoTimers, successAlerts>>

\* line 312
ConfigureSuccessMounted == mountedRef

\* the test of line 336 inverted
ConfigureCatchUnmounted == ~mountedRef

\* line 336
ConfigureCatchMounted == mountedRef

\* lines 334-352
ConfigureCatch(r, error) ==
  /\ reqs' = Finish(r)
  /\ IF ConfigureCatchMounted
     THEN /\ isConfiguring' = FALSE
          /\ last' = Completed(r, error = AbortError,
                       <<IF IsAbortError(error)
                         THEN Alert("Configuration Timeout", NoMessage)
                         ELSE Alert("Configuration Failed", error.message)>>)
          /\ UNCHANGED <<wifiNetworks, selectedNetwork, wifiPassword, isScanning>>
     ELSE /\ last' = Completed(r, error = AbortError, << >>)
          /\ UNCHANGED state

\* result.error || 'Configuration failed' (line 331)
ResultError(result) ==
  Error("Error", Message(IF result.error # "" THEN result.error
                         ELSE "Configuration failed", 0))

\* lines 306-332: response.json() delivered result
ConfigureResult(r, result) ==
  IF result.success
  THEN /\ reqs' = Finish(r)
       /\ IF ConfigureSuccessMounted
          THEN /\ isConfiguring' = FALSE
               /\ last' = Completed(r, FALSE, <<Alert("WiFi Connected!", NoMessage)>>)
               /\ successAlerts' = successAlerts + 1
               /\ UNCHANGED <<wifiNetworks, selectedNetwork, wifiPassword,
                              isScanning>>
          ELSE /\ last' = Completed(r, FALSE, << >>)
               /\ UNCHANGED <<state, successAlerts>>
  ELSE /\ ConfigureCatch(r, ResultError(result))
       /\ UNCHANGED successAlerts

\* ----------------------------------------------------- the requests' steps
\* one catch block shared by both functions: the scan's
CatchOfScan(r, error) == ScanCatch(r, error)

\* the catch block of the function that issued request r
Catch(r, error) ==
  IF reqs[r].kind = "scan" THEN ScanCatch(r, error) ELSE ConfigureCatch(r, error)

Fetching(r) == r \in DOMAIN reqs /\ reqs[r].phase = "fetch"

Reading(r) == r \in DOMAIN reqs /\ reqs[r].phase = "body"

\* the status codes the device answers with
Statuses == {200, 500}

\* the bodies of a 2xx scan response the flow is run with
Responses ==
  { [success |-> TRUE,  isArray |-> TRUE,  networks |-> <<Guest, Hidden, Blank, Home>>],
    [success |-> TRUE,  isArray |-> TRUE,  networks |-> << >>],
    [success |-> TRUE,  isArray |-> FALSE, networks |-> << >>],
    [success |-> FALSE, isArray |-> FALSE, networks |-> << >>] }

\* the bodies of a 2xx configure response
Results ==
  { [success |-> TRUE,  error |-> ""],
    [success |-> FALSE, error |-> ""],
    [success |-> FALSE, error |-> "Wrong password"] }

\* lines 94-99, then 214-216 or 302-304: the response headers arrive; the
\* timeout timer is cleared, and a non-2xx status is thrown to the catch block
FetchResponse(r, status) ==
  /\ Fetching(r)
  /\ IF Ok(status)
     THEN /\ reqs' = [reqs EXCEPT ![r] = [@ EXCEPT !.phase = "body",
                                                    !.timer = FALSE]]
          /\ last' = Quiet
          /\ UNCHANGED state
     ELSE Catch(r, HttpError(status))
  /\ UNCHANGED <<mountedRef, visible, props, delivered, refs, autoTimers, successAlerts>>

\* lines 100-102: fetch rejects for a transport failure
FetchFailed(r) ==
  /\ Fetching(r)
  /\ Catch(r, TransportError)
  /\ UNCHANGED <<mountedRef, visible, props, delivered, refs, autoTimers, successAlerts>>

\* lines 91, 100-102: the timeout timer of request r fires and aborts the
\* fetch, which rejects with an AbortError
FetchTimeout(r) ==
  /\ Fetching(r)
  /\ reqs[r].timer
  /\ Catch(r, AbortError)
  /\ UNCHANGED <<mountedRef, visible, props, delivered, refs, autoTimers, successAlerts>>

\* lines 218-242: the body of a scan response is read and parsed
ScanJson(r, data) ==
  /\ Reading(r) /\ reqs[r].kind = "scan"
  /\ ScanData(r, data)
  /\ UNCHANGED <<mountedRef, visible, props, refs, autoTimers, successAlerts>>

\* lines 306-332: the body of a configure response is read and parsed
ConfigureJson(r, result) ==
  /\ Reading(r) /\ reqs[r].kind = "configure"
  /\ ConfigureResult(r, result)
  /\ UNCHANGED <<mountedRef, visible, props, delivered, refs, autoTimers>>

\* lines 218, 306: response.json() rejects
JsonFailed(r) ==
  /\ Reading(r)
  /\ Catch(r, ParseError)
  /\ UNCHANGED <<mountedRef, visible, props, delivered, refs, autoTimers, successAlerts>>

\* ------------------------------------------------------------------- close
\* what the parent does in onClose: it hides the modal
onClose == visible' = FALSE

\* lines 355-363; every request outstanding now is one the flow was closed on
handleClose ==
  /\ selectedNetwork' = << >>
  /\ wifiPassword' = ""
  /\ wifiNetworks' = << >>
  /\ isScanning' = FALSE
  /\ delivered' = {}
  /\ cleanupWifiListener
  /\ onClose
  /\ reqs' = [r \in DOMAIN reqs |->
               IF Outstanding(r) THEN [reqs[r] EXCEPT !.closed = TRUE] ELSE reqs[r]]
  /\ UNCHANGED isConfiguring

\* lines 378, 388, 506: back request, close button, 'Skip WiFi'
CloseButton ==
  /\ mountedRef /\ visible
  /\ handleClose
  /\ last' = Quiet
  /\ UNCHANGED <<mountedRef, props, autoTimers, successAlerts>>

\* an OK handler that calls handleClose without looking at mountedRef
SuccessOkUnchecked == TRUE

\* line 322
SuccessOkMounted == mountedRef

\* lines 319-326: OK of a 'WiFi Connected!' alert
SuccessOk ==
  /\ successAlerts > 0
  /\ successAlerts' = successAlerts - 1
  /\ IF SuccessOkMounted
     THEN handleClose
     ELSE UNCHANGED <<refs, state, reqs, visible, delivered>>
  /\ last' = Quiet
  /\ UNCHANGED <<mountedRef, props, autoTimers>>

\* lines 127-132, 366-371: the parent removes the component
Unmount ==
  /\ mountedRef
  /\ mountedRef' = FALSE
  /\ cleanupWifiListener
  /\ last' = Quiet
  /\ UNCHANGED <<visible, props, delivered, state, autoTimers, reqs, successAlerts>>

\* ------------------------------------------------------------ the controls
\* lines 450-457, 54, 58: a row of the list is pressed
SelectNetwork(i) ==
  /\ mountedRef /\ visible
  /\ ~isScanning
  /\ i \in DOMAIN wifiNetworks
  /\ selectedNetwork' = <<wifiNetworks[i]>>
  /\ last' = Quiet
  /\ UNCHANGED <<mountedRef, visible, props, delivered, refs, wifiNetworks, wifiPassword,
                 isScanning, isConfiguring, autoTimers, reqs, successAlerts>>

\* line 475: the password section is rendered
PasswordShown == selectedNetwork # << >> /\ selectedNetwork[1].encryption # "OPEN"

Passwords == {"", "secret"}

\* lines 479-487
ChangePassword(p) ==
  /\ mountedRef /\ visible
  /\ PasswordShown
  /\ p # wifiPassword
  /\ wifiPassword' = p
  /\ last' = Quiet
  /\ UNCHANGED <<mountedRef, visible, props, delivered, refs, wifiNetworks, selectedNetwork,
                 isScanning, isConfiguring, autoTimers, reqs, successAlerts>>

\* ------------------------------------------------------- the specification
Next ==
  \/ Open
  \/ AutoScanTimer
  \/ ScanButton
  \/ ConfigureButton
  \/ CloseButton
  \/ SuccessOk
  \/ Unmount
  \/ \E i \in 1..Len(wifiNetworks) : SelectNetwork(i)
  \/ \E p \in Passwords : ChangePassword(p)
  \/ \E r \in 1..MaxReq :
       \/ \E status \in Statuses : FetchResponse(r, status)
       \/ FetchFailed(r)
       \/ FetchTimeout(r)
       \/ \E data \in Responses : ScanJson(r, data)
       \/ \E result \in Results : ConfigureJson(r, result)
       \/ JsonFailed(r)

Spec == Init /\ [][Next]_vars

\* Timers that are set fire: the auto-scan timer, and the timeout timer of a
\* request for as long as fetchWithTimeout has not cleared it.
TimersFire ==
  /\ WF_vars(AutoScanTimer)
  /\ \A r \in 1..MaxReq : WF_vars(FetchTimeout(r))

LiveSpec == Init /\ [][Next]_vars /\ TimersFire

\* ---------------------------------------------- the scan on any response
\* The entries a device may report: ssid present, padded, empty, blank or
\* missing; rssi negative, zero, positive or missing.
Catalog ==
  { Network(TRUE, <<"H">>, TRUE, -55, "WPA2"),
    Network(TRUE, <<"H">>, TRUE, 0, "WPA2"),
    Network(TRUE, <<"H">>, TRUE, 5, "WPA2"),
    Network(TRUE, <<"H">>, FALSE, 0, "WPA2"),
    Network(TRUE, <<" ", "G">>, TRUE, -70, "OPEN"),
    Network(TRUE, << >>, TRUE, -40, "OPEN"),
    Network(TRUE, <<" ">>, TRUE, -40, "OPEN"),
    Network(FALSE, << >>, TRUE, -40, "OPEN") }

SeqsUpTo(S, n) == UNION {[1..k -> S] : k \in 0..n}

\* every 2xx scan body with success true and a networks array
SortResponses ==
  {[success |-> TRUE, isArray |-> TRUE, networks |-> ns] :
     ns \in SeqsUpTo(Catalog, MaxNets)}

SortNext ==
  \/ Open
  \/ AutoScanTimer
  \/ ScanButton
  \/ CloseButton
  \/ Unmount
  \/ \E r \in 1..MaxReq :
       \/ \E status \in Statuses : FetchResponse(r, status)
       \/ \E data \in SortResponses : ScanJson(r, data)

SortSpec == Init /\ [][SortNext]_vars

\* ------------------------------------------ cleanupWifiListener on its own
\* No line of the file registers a listener or a cleanup function, so what
\* cleanupWifiListener does with them is checked with the refs holding, at
\* the first render, every combination of a timer id, a listener and up to
\* MaxCleanups cleanup functions, each of which returns or throws.  The steps
\* are the three callers of cleanupWifiListener (the start of a scan,
\* handleClose, the unmount cleanup) and what enables them.
TimerIds == {0, 1}

Listeners == {<< >>} \cup {<<Releaser(0, throws)>> : throws \in BOOLEAN}

CleanupLists ==
  UNION {{[i \in 1..n |-> Releaser(i, throws[i])] : throws \in [1..n -> BOOLEAN]} :
           n \in 0..MaxCleanups}

CleanupInit ==
  \E timerRef \in TimerIds, listenerRef \in Listeners, cleanups \in CleanupLists :
    InitWith(timerRef, listenerRef, cleanups)

CleanupNext ==
  \/ Open
  \/ AutoScanTimer
  \/ ScanButton
  \/ CloseButton
  \/ Unmount
  \/ \E r \in 1..MaxReq : FetchFailed(r)

CleanupSpec == CleanupInit /\ [][CleanupNext]_vars

\* ------------------------------------------------------------------ claims
SelectAlert == Alert("Error", Message("Please select a network", 0))

PasswordAlert == Alert("Error", Message("Please enter the WiFi password", 0))

\* C1: when a request that was outstanding at a handleClose resolves, none
\* of wifiNetworks, selectedNetwork, isScanning, isConfiguring changes and no
\* alert is raised.
ClosedRequestResolvesSilently ==
  [][\A r \in DOMAIN reqs :
       (Outstanding(r) /\ reqs[r].closed /\ reqs'[r].phase = "done")
         => /\ UNCHANGED <<wifiNetworks, selectedNetwork, isScanning, isConfiguring>>
            /\ last'.alerts = << >>]_vars

\* C2: once mountedRef is false no step changes the state, raises an alert
\* or closes the flow.
NoWriteAfterUnmount ==
  [][~mountedRef => /\ UNCHANGED <<state, visible>>
                    /\ last'.alerts = << >>
                    /\ successAlerts' <= successAlerts]_vars

\* C2 witness: a configure request completed after the unmount, with
\* isConfiguring still true
CompletedAfterUnmount ==
  ~mountedRef /\ last.kind = "configure" /\ isConfiguring

\* C3: at most one scan request is outstanding.
AtMostOneScan == Cardinality(OutstandingOf("scan")) <= 1

\* C4: a scan invoked while isScanning is true, from the Scan button or the
\* auto-scan timer, issues no request and changes no state.
ScanWhileScanningIsNoOp ==
  [][(isScanning /\ (ScanButton \/ AutoScanTimer))
       => (reqs' = reqs /\ UNCHANGED state)]_vars

\* C5: at most one configure request is outstanding, and pressing Connect
\* while one is outstanding issues none and leaves the first as it is.
AtMostOneConfigure ==
  /\ [](Cardinality(OutstandingOf("configure")) <= 1)
  /\ [][(OutstandingOf("configure") # {} /\ ConfigureButton)
          => reqs' = reqs]_vars

\* C5 witness: Connect was pressed with a network selected and was turned
\* down, while a configure issued before a handleClose is still outstanding
ConnectTurnedDownWhilePending ==
  /\ \E r \in OutstandingOf("configure") : reqs[r].closed
  /\ selectedNetwork # << >>
  /\ last = Raised(<<SelectAlert>>)

\* C6: Connect with a network that is not OPEN selected and an empty
\* password raises an error alert, issues no request and leaves isConfiguring
\* as it was; the alert asks for the password when line 267 did not reject.
ValidationBeforeRequest ==
  [][(/\ ConfigureButton
      /\ selectedNetwork # << >>
      /\ selectedNetwork[1].encryption # "OPEN"
      /\ wifiPassword = "")
       => /\ reqs' = reqs
          /\ isConfiguring' = isConfiguring
          /\ last' \in {Raised(<<SelectAlert>>), Raised(<<PasswordAlert>>)}
          /\ ~isConfiguring => last' = Raised(<<PasswordAlert>>)]_vars

\* C6 witness: the password alert was raised
PasswordAlertRaised ==
  /\ last = Raised(<<PasswordAlert>>)
  /\ selectedNetwork # << >>
  /\ selectedNetwork[1].encryption # "OPEN"
  /\ wifiPassword = ""
  /\ ~isConfiguring

\* what the claim takes for a network with a name
NonBlank(n) == n.hasSsid /\ \E k \in DOMAIN n.ssid : n.ssid[k] # " "

\* what the claim sorts by: only a missing rssi counts as -100
ClaimedKey(n) == IF n.hasRssi THEN n.rssi ELSE MissingRssiKey

Count(x, s) == Cardinality({i \in DOMAIN s : s[i] = x})

StoredAsClaimed(list, networks) ==
  /\ \A n \in Catalog :
       Count(n, list) = IF NonBlank(n) THEN Count(n, networks) ELSE 0
  /\ \A i, j \in DOMAIN list :
       i < j => ClaimedKey(list[i]) >= ClaimedKey(list[j])

\* C7: the list a successful scan stores is exactly the entries of the
\* response with a non-blank ssid, descending by rssi with only a missing
\* rssi counted as -100, whatever the list was before.
ScanStoresSortedList ==
  [][\A r \in DOMAIN reqs : \A data \in SortResponses :
       (mountedRef /\ ScanJson(r, data))
         => StoredAsClaimed(wifiNetworks', data.networks)]_vars

\* C8: a scan completed by the expiry of its timeout timer, the component
\* being mounted, raised the 'Scan Timeout' alert and no other, and
\* isScanning is false after it.
ScanTimeoutOutcome ==
  (last.kind = "scan" /\ last.aborted /\ mountedRef)
    => (last.alerts = <<Alert("Scan Timeout", NoMessage)>> /\ ~isScanning)

\* C8 witness: a scan was just completed by its timeout, mounted
ScanTimedOut ==
  /\ last.kind = "scan" /\ last.aborted /\ mountedRef
  /\ last.alerts = <<Alert("Scan Timeout", NoMessage)>>

\* C9: with timers firing, isScanning does not stay true forever unless the
\* component unmounts.
EveryScanEnds == isScanning ~> (~isScanning \/ ~mountedRef)

\* C10: after a configure request completes, the component being mounted,
\* isConfiguring is false and one alert tells the outcome.
ConfigureCompletionResets ==
  (last.kind = "configure" /\ mountedRef)
    => (~isConfiguring /\ Len(last.alerts) = 1)

\* C10 witness: a configure was answered HTTP 500, and the failure alert
\* carries the status
ConfigureHttp500 ==
  /\ last.kind = "configure" /\ mountedRef /\ ~isConfiguring
  /\ last.alerts = <<Alert("Configuration Failed", Message("HTTP", 500))>>

\* C11: a 2xx scan response that lacks a usable network list (success false,
\* or networks absent or not an array) raises "No Networks Found" and nothing
\* else, and leaves isScanning false and the network list empty.
EmptyResultOutcome ==
  [][\A r \in 1..MaxReq, data \in Responses :
       (mountedRef /\ ~HasNetworks(data) /\ ScanJson(r, data))
         => /\ last'.alerts = <<Alert("No Networks Found", NoMessage)>>
            /\ ~isScanning'
            /\ wifiNetworks' = << >>]_vars

\* a step in which handleClose ran: the close button, the Skip WiFi button or
\* the OK button of the success alert of a mounted component
HandleCloseStep == CloseButton \/ (SuccessOk /\ mountedRef)

\* C12: when handleClose returns, every piece of transient state has its
\* initial value: no networks, no selection, no password, not scanning and
\* not configuring.
CloseResetsAllState ==
  [][HandleCloseStep
       => /\ wifiNetworks' = << >>
          /\ selectedNetwork' = << >>
          /\ wifiPassword' = ""
          /\ ~isScanning'
          /\ ~isConfiguring']_vars

\* a step in which the flow is torn down: handleClose ran or the component
\* unmounted
TeardownStep == HandleCloseStep \/ Unmount

\* no timer the component started is pending: neither an auto-scan delay
\* timer nor the timeout timer of a request
NoTimerPending ==
  /\ autoTimers = << >>
  /\ \A r \in DOMAIN reqs : ~reqs[r].timer

\* C13: when teardown (handleClose or unmount) is over, no timer the
\* component started is still pending, so none can fire after it.
TeardownReleasesTimers == [][TeardownStep => NoTimerPending']_vars

\* C14: however many times cleanupWifiListener is called, the registered
\* listener and every registered cleanup function have been called exactly
\* once as soon as the first call is over (a function is called while its ref
\* still holds it, and never again: a second call finds the refs empty and
\* does nothing), and no call lets an exception escape, even when one of
\* the functions throws.
CleanupReleasesOnce ==
  /\ ~raised
  /\ invoked.listener =
       IF registered.listener # << >> /\ wifiListenerRef = << >> THEN 1 ELSE 0
  /\ \A i \in DOMAIN registered.cleanups :
       invoked.cleanups[i] = IF Listed(i) THEN 0 ELSE 1

\* C14 witness: a listener and a cleanup function that both throw were
\* registered; cleanupWifiListener ran at the start of a scan and again at
\* unmount, and each of them was called once
CleanedUpTwice ==
  /\ registered.listener # << >> /\ registered.listener[1].throws
  /\ \E i \in DOMAIN registered.cleanups :
       registered.cleanups[i].throws /\ invoked.cleanups[i] = 1
  /\ invoked.listener = 1
  /\ reqs # << >> /\ ~mountedRef

\* a step in which Connect issued a configure request
ConfigureIssued == ConfigureButton /\ Len(reqs') = Len(reqs) + 1

\* C15: whenever a configure request is issued for a network whose
\* encryption is OPEN, the password of the POST body is the empty string,
\* whatever was selected and typed before.
OpenNetworkSendsNoPassword ==
  [][(ConfigureIssued /\ selectedNetwork[1].encryption = "OPEN")
       => reqs'[Len(reqs')].body[1].password = ""]_vars

\* a step in which scanWifiNetworksViaHTTP was called: by the Scan button, or
\* by the auto-scan timer's callback when it found a mounted component with
\* a device
ScanInvoked == ScanButton \/ (AutoScanTimer /\ mountedRef /\ hasDevice)

\* C16: a scan invoked without a device id or without a user id does
\* nothing: no request is issued, isScanning is and stays false, the
\* network list is unchanged and no alert is raised.
ScanWithoutIdsIsNoOp ==
  [][(ScanInvoked /\ (~hasDevice \/ ~hasUser))
       => /\ reqs' = reqs
          /\ ~isScanning /\ ~isScanning'
          /\ wifiNetworks' = wifiNetworks
          /\ last'.alerts = << >>]_vars

\* C16 witness: the modal is shown for a device but without a user, and the
\* auto-scan timer has fired and called the scan
AutoScanWithoutUser ==
  /\ hasDevice /\ ~hasUser
  /\ visible /\ mountedRef /\ autoTimers = << >>
  /\ reqs = << >> /\ ~isScanning

\* a step in which a scan request was issued
ScanStarted == ScanInvoked /\ Len(reqs') = Len(reqs) + 1

\* C17: when the flow is dismissed or a new scan starts, the network list
\* and the selected network of the previous cycle are both cleared.
CycleDiscardsListAndSelection ==
  [][(HandleCloseStep \/ ScanStarted)
       => (wifiNetworks' = << >> /\ selectedNetwork' = << >>)]_vars

\* C18: in a mounted component, isScanning is true only while a scan request
\* is outstanding.
ScanningOnlyWhileOutstanding ==
  (mountedRef /\ isScanning) => OutstandingOf("scan") # {}

\* C18 witness: a scan ended and a later one is outstanding, with isScanning
\* true
RescanOutstanding ==
  /\ mountedRef /\ isScanning
  /\ \E r, q \in DOMAIN reqs :
       /\ r < q
       /\ reqs[r] = DoneRequest("scan")
       /\ reqs[q].kind = "scan" /\ Outstanding(q)

\* a step in which configure request r ended
ConfigureEnded(r) ==
  /\ r \in DOMAIN reqs
  /\ reqs[r].kind = "configure" /\ Outstanding(r)
  /\ reqs'[r].phase = "done"

\* C19: configure closes the flow only through the OK button of the success
\* alert, which is raised only for a 2xx answer with success true in a
\* mounted component, and the handler closes only while mounted.  Connect
\* itself and every way a configure request ends (refused by validation,
\* non-2xx, success false, timeout, transport failure, and the success
\* itself until OK is pressed) leave the flow open and keep the selection
\* and the password.
ConfigureClosesOnlyOnSuccess ==
  [][/\ (visible /\ ~visible') => (CloseButton \/ (SuccessOk /\ mountedRef))
     /\ (successAlerts' > successAlerts)
          => /\ mountedRef
             /\ \E r \in 1..MaxReq :
                  /\ reqs[r].phase = "body"
                  /\ ConfigureJson(r, [success |-> TRUE, error |-> ""])
     /\ (ConfigureButton \/ \E r \in 1..MaxReq : ConfigureEnded(r))
          => UNCHANGED <<visible, selectedNetwork, wifiPassword>>]_vars

\* C19 witness: the device refused the password; the alert is up, the flow
\* is still open and the selection and the password are kept
ConfigureRefusedKeepsInput ==
  /\ last.kind = "configure" /\ mountedRef /\ visible
  /\ last.alerts = <<Alert("Configuration Failed", Message("Wrong password", 0))>>
  /\ selectedNetwork # << >> /\ wifiPassword = "secret"

\* the alert reports a timeout
TimeoutAlert(alerts) ==
  /\ alerts # << >>
  /\ alerts[1].title \in {"Scan Timeout", "Configuration Timeout"}

\* a step in which request r ended
RequestEnded(r) ==
  /\ r \in DOMAIN reqs
  /\ Outstanding(r)
  /\ reqs'[r].phase = "done"

\* C20: every request has its own timer and abort controller.  In a mounted
\* component a request is reported as a timeout exactly when the step that
\* ended it is the expiry of its own armed timer, and the expiry of one
\* request's timer leaves every other request as it was.
TimeoutIsOwnTimer ==
  [][\A r \in 1..MaxReq :
       /\ (mountedRef /\ RequestEnded(r))
            => (TimeoutAlert(last'.alerts) <=> (reqs[r].timer /\ FetchTimeout(r)))
       /\ FetchTimeout(r)
            => \A q \in DOMAIN reqs \ {r} : reqs'[q] = reqs[q]]_vars

\* C20 witness: a configure request timed out while a scan request is still
\* waiting for its answer, its own timer armed
TimedOutBesideAnother ==
  /\ mountedRef
  /\ last.kind = "configure" /\ last.aborted
  /\ last.alerts = <<Alert("Configuration Timeout", NoMessage)>>
  /\ \E q \in DOMAIN reqs : reqs[q].kind = "scan" /\ reqs[q].phase = "fetch" /\ reqs[q].timer

\* a step of the scan: scanWifiNetworksViaHTTP was called, or a scan request
\* ended
ScanStep ==
  \/ ScanInvoked
  \/ \E r \in 1..MaxReq : RequestEnded(r) /\ reqs[r].kind = "scan"

\* a step of the configure: Connect was pressed, or a configure request ended
ConfigureStep == ConfigureButton \/ \E r \in 1..MaxReq : ConfigureEnded(r)

\* C21: the scan and the configure do not touch each other's state.  Starting
\* or ending a scan leaves isConfiguring and wifiPassword as they were;
\* pressing Connect or ending a configure request (on every path, the
\* failures included) leaves wifiNetworks, selectedNetwork and isScanning as
\* they were, also while a request of the other kind is outstanding.
ScanAndConfigureApart ==
  [][/\ ScanStep => UNCHANGED <<isConfiguring, wifiPassword>>
     /\ ConfigureStep => UNCHANGED <<wifiNetworks, selectedNetwork, isScanning>>]_vars

\* C21 witness: a configure request failed while a scan request is
\* outstanding, and the scan's flag and the selection are still there
ConfigureFailedDuringScan ==
  /\ mountedRef /\ last.kind = "configure" /\ ~isConfiguring
  /\ last.alerts # << >> /\ last.alerts[1].title = "Configuration Failed"
  /\ isScanning /\ OutstandingOf("scan") # {}
  /\ selectedNetwork # << >> /\ wifiPassword = "secret"

\* C22: every entry of wifiNetworks has a non-blank ssid, and the ssid of
\* every configure POST is non-blank and is the ssid of a network that a
\* successful scan stored since the last handleClose.
PostedSsidWasScanned ==
  [][/\ \A i \in DOMAIN wifiNetworks' : NonBlank(wifiNetworks'[i])
     /\ ConfigureIssued
          => /\ \E k \in DOMAIN configData.ssid : configData.ssid[k] # " "
             /\ reqs'[Len(reqs')].body[1].ssid = configData.ssid
             /\ configData.ssid \in delivered]_vars

\* C22 witness: the list was cleared by a new scan, and the configure POST
\* now outstanding carries the ssid selected from the list before it
PostedFromEarlierList ==
  /\ mountedRef /\ isScanning /\ wifiNetworks = << >>
  /\ \E r \in OutstandingOf("configure") :
       ~reqs[r].closed /\ reqs[r].body[1].ssid \in delivered

====
